---------------------------- MODULE Spec2Model ----------------------------
(***************************************************************************)
(* Bank churn prediction service: the process-wide classifier handle, the  *)
(* prediction endpoints that read it, and the drift check.                 *)
(*                                                                         *)
(* Probabilities are integers counted in units of 1e-5 (ProbScale = 1.0),  *)
(* so that rounding to 4 decimals is a real operation.                     *)
(***************************************************************************)
EXTENDS Integers, Sequences, FiniteSets, TLC

VARIABLES
    model,      \* app.main.model: None or the loaded classifier
    startup,    \* position of the startup handler load_model
    req         \* per worker thread: the request it is serving

vars == <<model, startup, req>>

(***************************************************************************)
(* Bounds of the model                                                     *)
(***************************************************************************)
MaxBatch == 2      \* longest features_list sent to /predict/batch

Workers == {"w1", "w2"}

(***************************************************************************)
(* app/models.py: CustomerFeatures                                         *)
(***************************************************************************)
DeclaredFields ==
    << "CreditScore", "Age", "Tenure", "Balance", "NumOfProducts",
       "HasCrCard", "IsActiveMember", "EstimatedSalary",
       "Geography_Germany", "Geography_Spain" >>

FieldNames == { DeclaredFields[i] : i \in 1..Len(DeclaredFields) }

\* Field(..., ge=, le=); bounded = FALSE when no le is declared
FieldConstraints ==
    [ CreditScore       |-> [ge |-> 300, bounded |-> TRUE,  le |-> 850],
      Age               |-> [ge |-> 18,  bounded |-> TRUE,  le |-> 120],
      Tenure            |-> [ge |-> 0,   bounded |-> TRUE,  le |-> 50],
      Balance           |-> [ge |-> 0,   bounded |-> FALSE, le |-> 0],
      NumOfProducts     |-> [ge |-> 1,   bounded |-> TRUE,  le |-> 10],
      HasCrCard         |-> [ge |-> 0,   bounded |-> TRUE,  le |-> 1],
      IsActiveMember    |-> [ge |-> 0,   bounded |-> TRUE,  le |-> 1],
      EstimatedSalary   |-> [ge |-> 0,   bounded |-> FALSE, le |-> 0],
      Geography_Germany |-> [ge |-> 0,   bounded |-> TRUE,  le |-> 1],
      Geography_Spain   |-> [ge |-> 0,   bounded |-> TRUE,  le |-> 1] ]

FieldOk(f, v) ==
    /\ v >= FieldConstraints[f].ge
    /\ FieldConstraints[f].bounded => v <= FieldConstraints[f].le

\* mutant: the lower bounds (ge=) are not enforced
CustomerFeaturesNoGe(raw) ==
    /\ DOMAIN raw = FieldNames
    /\ \A f \in FieldNames :
          FieldConstraints[f].bounded => raw[f] <= FieldConstraints[f].le

\* pydantic validation of one raw JSON object: every declared field is
\* required ("..."), within its bounds, and extra = "forbid"
CustomerFeatures(raw) ==
    /\ \A f \in FieldNames : f \in DOMAIN raw
    /\ \A f \in DOMAIN raw : f \in FieldNames
    /\ \A f \in FieldNames : FieldOk(f, raw[f])


(***************************************************************************)
(* Request bodies sent by clients                                          *)
(***************************************************************************)
\* tests/test_api.py: the record of test_predict_ok
RecordA ==
    [ CreditScore |-> 650, Age |-> 35, Tenure |-> 5, Balance |-> 50000,
      NumOfProducts |-> 2, HasCrCard |-> 1, IsActiveMember |-> 1,
      EstimatedSalary |-> 75000, Geography_Germany |-> 0,
      Geography_Spain |-> 1 ]

\* tests/test_api.py: the second record of test_predict_batch_ok
RecordB ==
    [ CreditScore |-> 720, Age |-> 44, Tenure |-> 8, Balance |-> 120000,
      NumOfProducts |-> 1, HasCrCard |-> 0, IsActiveMember |-> 0,
      EstimatedSalary |-> 82000, Geography_Germany |-> 1,
      Geography_Spain |-> 0 ]

\* a record below the CreditScore bound
RecordLowScore == [RecordA EXCEPT !.CreditScore = 250]

\* a record with a field the schema does not declare
RecordExtra == RecordA @@ [Surname |-> 1]

\* a record that lacks a declared field
RecordMissing == [f \in FieldNames \ {"Age"} |-> RecordA[f]]

\* the values just outside and just inside each bound of field f
EdgeValues(f) ==
    {FieldConstraints[f].ge - 1, FieldConstraints[f].ge}
        \cup (IF FieldConstraints[f].bounded
              THEN {FieldConstraints[f].le, FieldConstraints[f].le + 1}
              ELSE {})

EdgeRecords ==
    UNION { {[RecordA EXCEPT ![f] = v] : v \in EdgeValues(f)} : f \in FieldNames }

\* bodies of POST /predict
PredictBodies ==
    EdgeRecords \cup {RecordA, RecordB, RecordLowScore, RecordExtra, RecordMissing}

BatchRecords == {RecordA, RecordB, RecordLowScore, RecordExtra}

\* bodies of POST /predict/batch: lists of at most MaxBatch records
BatchBodies == UNION { [1..n -> BatchRecords] : n \in 0..MaxBatch }

(***************************************************************************)
(* The classifier artifact (train_model.py) and its predict_proba          *)
(***************************************************************************)
ProbScale == 100000        \* the probability 1.0

\* generate_data.py: the columns of data/bank_churn.csv, in order
TrainingColumns ==
    << "CreditScore", "Age", "Tenure", "Balance", "NumOfProducts",
       "HasCrCard", "IsActiveMember", "EstimatedSalary",
       "Geography_Germany", "Geography_Spain", "Exited" >>

\* train_model.py: X = df.drop("Exited", axis=1)
TrainingFeatures == SelectSeq(TrainingColumns, LAMBDA c : c # "Exited")

Column(name) == CHOOSE i \in 1..Len(TrainingFeatures) : TrainingFeatures[i] = name

Leaf(p) == [raises |-> FALSE, p |-> p]
RaisingLeaf == [raises |-> TRUE, p |-> 0]

\* what the leaves of a fitted classifier may answer: probabilities around
\* every threshold of the service, and a failure
Leaves ==
    << Leaf(29999), Leaf(30000), Leaf(70000), Leaf(69996),
       Leaf(50000), Leaf(50004), RaisingLeaf >>

\* a fitted classifier: a decision stump on the Age column, trained on
\* TrainingFeatures (it has no column names at inference time)
Stump(k) ==
    [ is_none |-> FALSE, fitted |-> TRUE,
      n_features |-> Len(TrainingFeatures),
      feature |-> Column("Age"), split |-> 40,
      left |-> Leaves[k], right |-> Leaves[(k % Len(Leaves)) + 1] ]

\* what joblib.load(MODEL_PATH) can return
Artifacts == { Stump(k) : k \in 1..Len(Leaves) }

None == [is_none |-> TRUE]

LeafOf(clf, row) ==
    IF row[clf.feature] <= clf.split THEN clf.left ELSE clf.right

Raised == [raised |-> TRUE, value |-> << >>]

\* clf.predict_proba(X): one row <<P(class 0), P(class 1)>> per row of X;
\* raises on None (no such attribute), on an unfitted object, on a row of
\* the wrong width and when the classifier itself fails
predict_proba(clf, X) ==
    IF clf.is_none THEN Raised
    ELSE IF ~clf.fitted THEN Raised
    ELSE IF \E i \in 1..Len(X) : Len(X[i]) # clf.n_features THEN Raised
    ELSE IF \E i \in 1..Len(X) : LeafOf(clf, X[i]).raises THEN Raised
    ELSE [ raised |-> FALSE,
           value |-> [ i \in 1..Len(X) |->
                        << ProbScale - LeafOf(clf, X[i]).p, LeafOf(clf, X[i]).p >> ] ]

(***************************************************************************)
(* app/utils.py                                                            *)
(***************************************************************************)
\* mutant: Balance and EstimatedSalary change places
build_feature_array_swapped(features) ==
    << << features.CreditScore, features.Age, features.Tenure,
          features.EstimatedSalary, features.NumOfProducts, features.HasCrCard,
          features.IsActiveMember, features.Balance,
          features.Geography_Germany, features.Geography_Spain >> >>

build_feature_array(features) ==
    << << features.CreditScore, features.Age, features.Tenure,
          features.Balance, features.NumOfProducts, features.HasCrCard,
          features.IsActiveMember, features.EstimatedSalary,
          features.Geography_Germany, features.Geography_Spain >> >>

(***************************************************************************)
(* app/main.py: the pure parts of the prediction handlers                  *)
(***************************************************************************)
\* mutant: the probability is cut after four decimals instead of rounded
Round4Floor(proba) == 10 * (proba \div 10)

\* round(proba, 4): to the nearest multiple of 1e-4.  No leaf sits on a
\* tie (a fifth decimal of 5), which no binary float represents exactly.
Round4(proba) == 10 * ((proba + 5) \div 10)

\* mutant: the boundaries fall into the lower band
RiskLevelInclusive(proba) ==
    IF proba <= 30000 THEN "Low" ELSE IF proba <= 70000 THEN "Medium" ELSE "High"

\* "Low" if proba < 0.3 else "Medium" if proba < 0.7 else "High"
RiskLevel(proba) ==
    IF proba < 30000 THEN "Low" ELSE IF proba < 70000 THEN "Medium" ELSE "High"

\* mutant: 0.5 counts as churn
PredictionGe(proba) == IF proba >= 50000 THEN 1 ELSE 0

\* int(proba > 0.5)
Prediction(proba) == IF proba > 50000 THEN 1 ELSE 0

\* float(model.predict_proba(input_data)[0][1])
PositiveProba(out) == out.value[1][2]


(***************************************************************************)
(* Requests in flight                                                      *)
(***************************************************************************)
NoResponse == [status |-> 0]
NoFile == [exists |-> FALSE]
NoEvent == [event_type |-> "none"]

\* a worker thread that serves no request
Idle ==
    [ pc |-> "idle", op |-> "none", began |-> "", body |-> << >>, i |-> 0,
      input_data |-> << >>, proba |-> 0, predictions |-> << >>,
      calls |-> 0, used |-> None, reference |-> NoFile, production |-> NoFile,
      threshold |-> 0, results |-> << >>, compared |-> {}, event |-> NoEvent,
      resp |-> NoResponse ]

\* HTTPException(status_code, detail) leaving the handler
HTTPException(r, status_code, detail) ==
    [r EXCEPT !.pc = "done", !.resp = [status |-> status_code, detail |-> detail]]

\* FastAPI's answer to a body that fails validation; the handler never runs
RequestValidationError(r) ==
    [r EXCEPT !.pc = "done", !.resp = [status |-> 422, detail |-> "validation"]]

\* "if model is None"
ModelIsNone(m) == m = None

\* mutant: a failing emission leaves the logger call as an exception
LoggerRaisesOnFailure(emitted) == ~emitted

\* Whether a logger call raises when its handlers did (emitted) or did not
\* emit the record.  The handlers are the StreamHandler of basicConfig and,
\* when configured, the AzureLogHandler; Handler.emit catches the exception
\* of a failing emission and reports it through handleError, so the call
\* returns either way.
LoggerRaises(emitted) == FALSE

\* logger.info(event_type, extra=...) inside the try block of a handler
\* whose request is r: an exception leaves the try block for the except
\* clause, which answers 500
logger_info(r, event_type, emitted) ==
    IF LoggerRaises(emitted)
    THEN HTTPException([r EXCEPT !.predictions = << >>],
                       500, event_type \o "_error")
    ELSE [r EXCEPT !.event = [event_type |-> event_type, emitted |-> emitted]]

(***************************************************************************)
(* app/main.py: load_model, the startup handler                            *)
(***************************************************************************)
\* mutant: the object is published before it is fitted, and fitted later
load_model_publish_early ==
    /\ startup = "pending"
    /\ \/ /\ model = None
          /\ \E clf \in Artifacts : model' = [clf EXCEPT !.fitted = FALSE]
          /\ startup' = startup
       \/ /\ model # None
          /\ model' = [model EXCEPT !.fitted = TRUE]
          /\ startup' = "complete"
    /\ UNCHANGED req

\* mutant: a failing load is not caught
load_model_uncaught ==
    /\ startup = "pending"
    /\ \/ /\ \E clf \in Artifacts : model' = clf
          /\ startup' = "complete"
       \/ /\ model' = model
          /\ startup' = "raised"
    /\ UNCHANGED req

\* mutant: the handler runs again later and a failing reload clears the model
load_model_again ==
    /\ startup \in {"pending", "complete"}
    /\ \/ \E clf \in Artifacts : model' = clf
       \/ model' = None
    /\ startup' = "complete"
    /\ UNCHANGED req

\* The try block fails only in joblib.load: the logger calls change no
\* state and do not raise (the handlers of logging swallow emission errors).
\* The assignment to the global is a single store, so load and store are one
\* step.
load_model ==
    /\ startup = "pending"
    /\ \/ \E clf \in Artifacts : model' = clf      \* joblib.load returned
       \/ model' = None                            \* except Exception
    /\ startup' = "complete"
    /\ UNCHANGED req

(***************************************************************************)
(* app/main.py: health                                                     *)
(***************************************************************************)
health_body(r, m) ==
    IF ModelIsNone(m)
    THEN HTTPException(r, 503, "Model not loaded")
    ELSE [r EXCEPT !.pc = "done",
                   !.resp = [status |-> 200, health_status |-> "healthy",
                             model_loaded |-> TRUE]]

health(w) ==
    /\ startup # "raised"
    /\ req[w].pc = "idle"
    /\ req' = [req EXCEPT ![w] =
            health_body([req[w] EXCEPT !.op = "health", !.began = startup], model)]
    /\ UNCHANGED <<model, startup>>

(***************************************************************************)
(* app/main.py: predict                                                    *)
(***************************************************************************)
\* the request arrives: validation, then the handler's availability check
predict_begin(w, raw) ==
    /\ startup # "raised"
    /\ req[w].pc = "idle"
    /\ LET r == [req[w] EXCEPT !.op = "predict", !.began = startup,
                               !.body = <<raw>>]
       IN  req' = [req EXCEPT ![w] =
                IF ~CustomerFeatures(raw) THEN RequestValidationError(r)
                ELSE IF ModelIsNone(model)
                     THEN HTTPException(r, 503, "Model unavailable")
                     ELSE [r EXCEPT !.pc = "use"]]
    /\ UNCHANGED <<model, startup>>

\* the try block of predict, run against the value m that the global model
\* holds when the handler reads it again
predict_try(r, m) ==
    LET features   == r.body[1]
        input_data == build_feature_array(features)
        out        == predict_proba(m, input_data)
        called     == [r EXCEPT !.input_data = input_data, !.used = m,
                                !.calls = IF m = None THEN @ ELSE @ + 1]
    IN  IF out.raised
        THEN HTTPException(called, 500, "prediction_error")
        ELSE LET proba      == PositiveProba(out)
                 prediction == Prediction(proba)
                 risk       == RiskLevel(proba)
             IN  [called EXCEPT
                    !.pc = "done", !.proba = proba,
                    !.resp = [ status |-> 200,
                               churn_probability |-> Round4(proba),
                               prediction |-> prediction,
                               risk_level |-> risk ]]

\* the try block with its logger.info call, which comes after the
\* classifier's answer and before the response is built
predict_use(w) ==
    /\ req[w].pc = "use"
    /\ req[w].op = "predict"
    /\ LET out == predict_try(req[w], model)
       IN  \/ /\ out.resp.status # 200
              /\ req' = [req EXCEPT ![w] = out]
           \/ /\ out.resp.status = 200
              /\ \E emitted \in BOOLEAN :
                    req' = [req EXCEPT ![w] =
                                logger_info(out, "prediction", emitted)]
    /\ UNCHANGED <<model, startup>>


(***************************************************************************)
(* app/main.py: predict_batch                                              *)
(***************************************************************************)
\* the request arrives: every element of the list is validated, then the
\* handler's availability check runs and predictions = []
predict_batch_begin(w, raws) ==
    /\ startup # "raised"
    /\ req[w].pc = "idle"
    /\ LET r == [req[w] EXCEPT !.op = "predict_batch", !.began = startup,
                               !.body = raws]
       IN  req' = [req EXCEPT ![w] =
                IF \E k \in 1..Len(raws) : ~CustomerFeatures(raws[k])
                THEN RequestValidationError(r)
                ELSE IF ModelIsNone(model)
                     THEN HTTPException(r, 503, "Model unavailable")
                     ELSE [r EXCEPT !.pc = "loop", !.i = 1]]
    /\ UNCHANGED <<model, startup>>

\* mutant: a record whose computation fails is skipped
predict_batch_iteration_skip(r, m) ==
    LET features   == r.body[r.i]
        input_data == build_feature_array(features)
        out        == predict_proba(m, input_data)
        called     == [r EXCEPT !.input_data = input_data, !.used = m,
                                !.calls = IF m = None THEN @ ELSE @ + 1]
    IN  IF out.raised
        THEN [called EXCEPT !.i = @ + 1]
        ELSE LET proba      == PositiveProba(out)
                 prediction == Prediction(proba)
             IN  [called EXCEPT
                    !.i = @ + 1,
                    !.predictions = Append(@,
                        [ churn_probability |-> Round4(proba),
                          prediction |-> prediction ])]

\* mutant: each prediction is put in front of the list
predict_batch_iteration_prepend(r, m) ==
    LET features   == r.body[r.i]
        input_data == build_feature_array(features)
        out        == predict_proba(m, input_data)
        called     == [r EXCEPT !.input_data = input_data, !.used = m,
                                !.calls = IF m = None THEN @ ELSE @ + 1]
    IN  IF out.raised
        THEN HTTPException([called EXCEPT !.predictions = << >>],
                           500, "batch_prediction_error")
        ELSE LET proba      == PositiveProba(out)
                 prediction == Prediction(proba)
             IN  [called EXCEPT
                    !.i = @ + 1,
                    !.predictions =
                        << [ churn_probability |-> Round4(proba),
                             prediction |-> prediction ] >> \o @]

\* one pass of "for features in features_list", run against the value m
\* that the global model holds in this pass; an exception leaves the loop
\* for the except clause and the list built so far is dropped
predict_batch_iteration(r, m) ==
    LET features   == r.body[r.i]
        input_data == build_feature_array(features)
        out        == predict_proba(m, input_data)
        called     == [r EXCEPT !.input_data = input_data, !.used = m,
                                !.calls = IF m = None THEN @ ELSE @ + 1]
    IN  IF out.raised
        THEN HTTPException([called EXCEPT !.predictions = << >>],
                           500, "batch_prediction_error")
        ELSE LET proba      == PositiveProba(out)
                 prediction == Prediction(proba)
             IN  [called EXCEPT
                    !.i = @ + 1,
                    !.predictions = Append(@,
                        [ churn_probability |-> Round4(proba),
                          prediction |-> prediction ])]

predict_batch_loop(w) ==
    /\ req[w].pc = "loop"
    /\ req[w].i <= Len(req[w].body)
    /\ req' = [req EXCEPT ![w] = predict_batch_iteration(req[w], model)]
    /\ UNCHANGED <<model, startup>>

\* the loop is over: logger.info, then
\* {"predictions": predictions, "count": len(predictions)}
predict_batch_return(w) ==
    /\ req[w].pc = "loop"
    /\ req[w].i > Len(req[w].body)
    /\ \E emitted \in BOOLEAN :
          req' = [req EXCEPT ![w] =
            logger_info(
                [req[w] EXCEPT !.pc = "done",
                               !.resp = [ status |-> 200,
                                          predictions |-> req[w].predictions,
                                          count |-> Len(req[w].predictions) ]],
                "batch_prediction", emitted)]
    /\ UNCHANGED <<model, startup>>

(***************************************************************************)
(* app/drift_detect.py                                                     *)
(*                                                                         *)
(* A CSV file read by pandas is a sequence of columns, each with a dtype   *)
(* and cells; p-values, statistics and thresholds count in units of 0.01.  *)
(***************************************************************************)
NaN == [na |-> TRUE, v |-> 0]
Cell(v) == [na |-> FALSE, v |-> v]

\* np.issubdtype(dtype, np.number): bool and object are not numbers
IsNumber(dtype) == dtype \in {"int64", "float64"}

\* Series.dropna().values
DropNa(values) == SelectSeq(values, LAMBDA c : ~c.na)

ColumnNames(df) == { df[k].name : k \in 1..Len(df) }

ColumnOf(df, name) == df[CHOOSE k \in 1..Len(df) : df[k].name = name]

\* df.drop(columns=["Exited"]) when "Exited" is a column
DropExited(df) == SelectSeq(df, LAMBDA c : c.name # "Exited")

\* scipy.stats.ks_2samp orders and merges the two samples: it raises a
\* TypeError when numbers meet strings (an object column) and answers
\* (statistic, p_value) otherwise, booleans counting as 0 and 1
Ks2SampRaises(ref_col, prod_col) ==
    ref_col.dtype = "object" \/ prod_col.dtype = "object"

\* "if not np.issubdtype(ref_df[col].dtype, np.number): continue"
SkippedAsNonNumeric(ref_col, prod_col) == ~IsNumber(ref_col.dtype)

\* "if len(ref_values) == 0 or len(prod_values) == 0: continue"
SkippedAsEmpty(ref_col, prod_col) ==
    Len(DropNa(ref_col.values)) = 0 \/ Len(DropNa(prod_col.values)) = 0

\* the loop over common_cols from position k on; acc carries the results
\* built so far and the columns handed to ks_2samp; ks gives the answer of
\* ks_2samp for each column name
RECURSIVE DriftLoop(_, _, _, _, _, _, _)
DriftLoop(common_cols, k, ref_df, prod_df, threshold, ks, acc) ==
    IF k > Len(common_cols) THEN acc
    ELSE LET col      == common_cols[k]
             ref_col  == ColumnOf(ref_df, col)
             prod_col == ColumnOf(prod_df, col)
         IN  IF SkippedAsNonNumeric(ref_col, prod_col)
                     \/ SkippedAsEmpty(ref_col, prod_col)
             THEN DriftLoop(common_cols, k + 1, ref_df, prod_df, threshold, ks, acc)
             ELSE IF Ks2SampRaises(ref_col, prod_col)
             THEN [ raised |-> TRUE, error |-> "TypeError", results |-> << >>,
                    compared |-> acc.compared \cup {col} ]
             ELSE DriftLoop(common_cols, k + 1, ref_df, prod_df, threshold, ks,
                    [ acc EXCEPT
                        !.compared = @ \cup {col},
                        !.results = Append(@,
                            [ feature |-> col,
                              p_value |-> ks[col].p_value,
                              statistic |-> ks[col].statistic,
                              drift_detected |-> ks[col].p_value < threshold,
                              type |-> "ks" ]) ])

DriftRaised(error) ==
    [raised |-> TRUE, error |-> error, results |-> << >>, compared |-> {}]

detect_drift(reference_file, production_file, threshold, ks) ==
    IF ~reference_file.exists THEN DriftRaised("FileNotFoundError")
    ELSE IF ~production_file.exists THEN DriftRaised("FileNotFoundError")
    ELSE LET ref_df  == DropExited(reference_file.columns)
             prod_df == DropExited(production_file.columns)
             common_cols ==
                 SelectSeq([k \in 1..Len(ref_df) |-> ref_df[k].name],
                           LAMBDA col : col \in ColumnNames(prod_df))
         IN  IF Len(common_cols) = 0 THEN DriftRaised("ValueError")
             ELSE DriftLoop(common_cols, 1, ref_df, prod_df, threshold, ks,
                    [ raised |-> FALSE, error |-> "", results |-> << >>,
                      compared |-> {} ])

(***************************************************************************)
(* app/main.py: the drift endpoints                                        *)
(***************************************************************************)
Drifted(results) == { k \in 1..Len(results) : results[k].drift_detected }

\* mutant: the percentage is cut after two decimals instead of rounded
RoundedPercentageTruncated(drifted, total) == (10000 * drifted) \div total

\* round(x, 2) of the percentage 100 * drifted / total, in units of 0.01
RoundedPercentage(drifted, total) ==
    (2 * 10000 * drifted + total) \div (2 * total)

\* the "drift_detection" event and one "feature_drift" event per drifted
\* feature
log_drift_to_insights(drift_results) ==
    LET total      == Len(drift_results)
        drifted    == Cardinality(Drifted(drift_results))
        percentage == IF total # 0 THEN RoundedPercentage(drifted, total) ELSE 0
        risk       == IF percentage < 2000 THEN "LOW"
                      ELSE IF percentage < 5000 THEN "MEDIUM" ELSE "HIGH"
    IN  [ event_type |-> "drift_detection",
          drift_percentage |-> percentage,
          risk_level |-> risk,
          feature_drift |-> { drift_results[k].feature : k \in Drifted(drift_results) } ]

\* mutant: a failing drift check clears the global model
check_drift_clears_model(w, reference_file, production_file, threshold, ks) ==
    /\ startup # "raised"
    /\ req[w].pc = "idle"
    /\ LET r   == [req[w] EXCEPT !.op = "check_drift", !.began = startup,
                                 !.reference = reference_file,
                                 !.production = production_file,
                                 !.threshold = threshold]
           out == detect_drift(reference_file, production_file, threshold, ks)
       IN  /\ req' = [req EXCEPT ![w] =
                  IF out.raised
                  THEN HTTPException([r EXCEPT !.compared = out.compared],
                                     500, "Drift check failed")
                  ELSE [r EXCEPT
                          !.pc = "done",
                          !.results = out.results,
                          !.compared = out.compared,
                          !.event = log_drift_to_insights(out.results),
                          !.resp = [ status |-> 200,
                                     drift_status |-> "success",
                                     features_analyzed |-> Len(out.results),
                                     features_drifted |->
                                         Cardinality(Drifted(out.results)) ]]]
           /\ model' = IF out.raised THEN None ELSE model
    /\ UNCHANGED startup

check_drift(w, reference_file, production_file, threshold, ks) ==
    /\ startup # "raised"
    /\ req[w].pc = "idle"
    /\ LET r   == [req[w] EXCEPT !.op = "check_drift", !.began = startup,
                                 !.reference = reference_file,
                                 !.production = production_file,
                                 !.threshold = threshold]
           out == detect_drift(reference_file, production_file, threshold, ks)
       IN  req' = [req EXCEPT ![w] =
                IF out.raised
                THEN HTTPException([r EXCEPT !.compared = out.compared],
                                   500, "Drift check failed")
                ELSE [r EXCEPT
                        !.pc = "done",
                        !.results = out.results,
                        !.compared = out.compared,
                        !.event = log_drift_to_insights(out.results),
                        !.resp = [ status |-> 200,
                                   drift_status |-> "success",
                                   features_analyzed |-> Len(out.results),
                                   features_drifted |->
                                       Cardinality(Drifted(out.results)) ]]]
    /\ UNCHANGED <<model, startup>>

manual_drift_alert(w) ==
    /\ startup # "raised"
    /\ req[w].pc = "idle"
    /\ req' = [req EXCEPT ![w].pc = "done", ![w].op = "manual_drift_alert",
                          ![w].began = startup,
                          ![w].event = [event_type |-> "manual_drift_alert"],
                          ![w].resp = [status |-> 200, drift_status |-> "alert_sent"]]
    /\ UNCHANGED <<model, startup>>

(***************************************************************************)
(* The response is sent and the worker thread is free again                *)
(***************************************************************************)
respond(w) ==
    /\ req[w].pc = "done"
    /\ req' = [req EXCEPT ![w] = Idle]
    /\ UNCHANGED <<model, startup>>

(***************************************************************************)
(* The service                                                             *)
(***************************************************************************)
Init ==
    /\ model = None                    \* main.py: model = None
    /\ startup = "pending"
    /\ req = [w \in Workers |-> Idle]

Next ==
    \/ load_model
    \/ \E w \in Workers : health(w)
    \/ \E w \in Workers :
         /\ req[w].pc = "idle"
         /\ \E raw \in PredictBodies : predict_begin(w, raw)
    \/ \E w \in Workers : predict_use(w)
    \/ \E w \in Workers :
         /\ req[w].pc = "idle"
         /\ \E raws \in BatchBodies : predict_batch_begin(w, raws)
    \/ \E w \in Workers : predict_batch_loop(w)
    \/ \E w \in Workers : predict_batch_return(w)
    \/ \E w \in Workers : respond(w)

Spec == Init /\ [][Next]_vars

(***************************************************************************)
(* The drift endpoints alone, over every pair of small CSV files           *)
(***************************************************************************)
\* the shapes one column can take in a file
Columns(name) ==
    { [name |-> name, dtype |-> "int64",   values |-> <<Cell(1), Cell(2)>>],
      [name |-> name, dtype |-> "float64", values |-> <<Cell(1), NaN>>],
      [name |-> name, dtype |-> "float64", values |-> <<NaN, NaN>>],
      [name |-> name, dtype |-> "bool",    values |-> <<Cell(0), Cell(1)>>],
      [name |-> name, dtype |-> "object",  values |-> <<Cell(7), Cell(8)>>] }

Optional(columns) == { << >> } \cup { <<c>> : c \in columns }

\* a file that is missing, or holds any of Age, Geography and the label
DriftFiles ==
    { NoFile } \cup
    { [exists |-> TRUE, columns |-> a \o g \o e] :
        a \in Optional(Columns("Age")),
        g \in Optional(Columns("Geography")),
        e \in Optional({[name |-> "Exited", dtype |-> "int64",
                         values |-> <<Cell(0), Cell(1)>>]}) }

\* answers of ks_2samp: identical samples, a p-value of 0.05, a clear
\* difference
KsAnswers ==
    { [statistic |-> 0,   p_value |-> 100],
      [statistic |-> 60,  p_value |-> 5],
      [statistic |-> 100, p_value |-> 1] }

\* the threshold query parameter: the default 0.05, and 0.01
Thresholds == {5, 1}

DriftWorkers == {"w1"}

DriftNext ==
    \/ \E w \in DriftWorkers :
         /\ req[w].pc = "idle"
         /\ \E reference_file, production_file \in DriftFiles :
              \E threshold \in Thresholds :
                \E ks \in [{"Age", "Geography"} -> KsAnswers] :
                   check_drift(w, reference_file, production_file, threshold, ks)
    \/ \E w \in DriftWorkers : manual_drift_alert(w)
    \/ \E w \in DriftWorkers : respond(w)

DriftSpec == Init /\ [][DriftNext]_vars

(***************************************************************************)
(* The aggregation step of check_drift alone, over every result mapping of *)
(* up to MaxFeatures features                                              *)
(***************************************************************************)
MaxFeatures == 10

\* a result mapping as detect_drift builds it, one entry per feature, the
\* entry of feature k drifted exactly when flags[k]
DriftResults(flags) ==
    [ k \in 1..Len(flags) |->
        [ feature |-> "feature" \o ToString(k),
          p_value |-> IF flags[k] THEN 1 ELSE 100,
          statistic |-> IF flags[k] THEN 100 ELSE 0,
          drift_detected |-> flags[k],
          type |-> "ks" ] ]

DriftFlags == UNION { [1..n -> BOOLEAN] : n \in 0..MaxFeatures }

\* check_drift from the point where detect_drift has returned results
check_drift_results(w, results) ==
    /\ startup # "raised"
    /\ req[w].pc = "idle"
    /\ req' = [req EXCEPT ![w] =
            [req[w] EXCEPT
                !.pc = "done", !.op = "check_drift", !.began = startup,
                !.results = results,
                !.event = log_drift_to_insights(results),
                !.resp = [ status |-> 200,
                           drift_status |-> "success",
                           features_analyzed |-> Len(results),
                           features_drifted |-> Cardinality(Drifted(results)) ]]]
    /\ UNCHANGED <<model, startup>>

AggregateNext ==
    \/ \E w \in DriftWorkers :
         /\ req[w].pc = "idle"
         /\ \E flags \in DriftFlags : check_drift_results(w, DriftResults(flags))
    \/ \E w \in DriftWorkers : respond(w)

AggregateSpec == Init /\ [][AggregateNext]_vars

(***************************************************************************)
(* The whole application: the startup load and the five endpoints on two   *)
(* worker threads, over a few bodies and a few pairs of CSV files          *)
(***************************************************************************)
ServiceBodies == {RecordA, RecordB, RecordLowScore}

ServiceBatchBodies == { << >>, <<RecordA, RecordB>>, <<RecordB, RecordLowScore>> }

\* a missing file, a file with a numeric Age, one with a text Age, one with
\* Geography alone
ServiceFiles ==
    { NoFile,
      [exists |-> TRUE, columns |->
          << [name |-> "Age", dtype |-> "int64", values |-> <<Cell(1), Cell(2)>>] >>],
      [exists |-> TRUE, columns |->
          << [name |-> "Age", dtype |-> "object", values |-> <<Cell(7), Cell(8)>>] >>],
      [exists |-> TRUE, columns |->
          << [name |-> "Geography", dtype |-> "object",
              values |-> <<Cell(7), Cell(8)>>] >>] }

\* ks_2samp gives every column the same answer
ServiceKs == { [col \in {"Age", "Geography"} |-> a] : a \in KsAnswers }

ServiceNext ==
    \/ load_model
    \/ \E w \in Workers : health(w)
    \/ \E w \in Workers :
         /\ req[w].pc = "idle"
         /\ \E raw \in ServiceBodies : predict_begin(w, raw)
    \/ \E w \in Workers : predict_use(w)
    \/ \E w \in Workers :
         /\ req[w].pc = "idle"
         /\ \E raws \in ServiceBatchBodies : predict_batch_begin(w, raws)
    \/ \E w \in Workers : predict_batch_loop(w)
    \/ \E w \in Workers : predict_batch_return(w)
    \/ \E w \in Workers :
         /\ req[w].pc = "idle"
         /\ \E reference_file, production_file \in ServiceFiles :
              \E ks \in ServiceKs :
                 check_drift(w, reference_file, production_file, 5, ks)
    \/ \E w \in Workers : manual_drift_alert(w)
    \/ \E w \in Workers : respond(w)

ServiceSpec == Init /\ [][ServiceNext]_vars


(***************************************************************************)
(* Vocabulary of the properties                                            *)
(***************************************************************************)
PredictionOps == {"predict", "predict_batch"}

\* a field of the record lies outside its declared bound
OutOfBounds(raw) ==
    \E f \in FieldNames \cap DOMAIN raw :
        \/ raw[f] < FieldConstraints[f].ge
        \/ FieldConstraints[f].bounded /\ raw[f] > FieldConstraints[f].le

\* the record has a field the schema does not declare
HasUnknownField(raw) == \E f \in DOMAIN raw : f \notin FieldNames

\* a valid record: the ten declared fields, each within its bound
ValidRecord(raw) == DOMAIN raw = FieldNames /\ ~OutOfBounds(raw)

ValidBody(body) == \A k \in 1..Len(body) : ValidRecord(body[k])

\* the record's attributes in the column order of the training data
TrainingRow(raw) == [k \in 1..Len(TrainingFeatures) |-> raw[TrainingFeatures[k]]]

\* what a fitted classifier answers for a valid record
ClassifierFails(clf, raw) == LeafOf(clf, TrainingRow(raw)).raises
ClassifierProba(clf, raw) == LeafOf(clf, TrainingRow(raw)).p

\* worker w starts a prediction request in this step
Begins(w) ==
    /\ req[w].pc = "idle"
    /\ req'[w].pc # "idle"
    /\ req'[w].op \in PredictionOps

\* worker w serves a health request in this step
ServesHealth(w) == req[w].pc = "idle" /\ req'[w].op = "health"

Unavailable(r) == r.pc = "done" /\ r.resp.status = 503

(***************************************************************************)
(* C1: a predict or predict_batch request with a valid body that is        *)
(* handled while the startup load has not completed fails with 503 "model  *)
(* unavailable"; once the model is loaded the handle never changes again   *)
(* and no prediction request fails with 503 any more.                      *)
(***************************************************************************)
C1_Step ==
    /\ \A w \in Workers :
          (Begins(w) /\ startup = "pending" /\ ValidBody(req'[w].body))
              => Unavailable(req'[w])
    /\ model # None => model' = model
    /\ \A w \in Workers :
          (model # None /\ req'[w].op \in PredictionOps /\ Unavailable(req'[w]))
              => Unavailable(req[w])

\* C1: every step of the service refuses early requests and keeps a loaded
\* handle as it is
C1_HandleStaysReady == [][C1_Step]_vars

\* one request was refused before the load, another is answered after it
C1_Witness ==
    /\ startup = "complete"
    /\ model # None
    /\ \E w, v \in Workers :
          /\ req[w].op = "predict" /\ req[w].began = "pending"
          /\ Unavailable(req[w])
          /\ req[v].op \in PredictionOps /\ req[v].began = "complete"
          /\ req[v].pc = "done" /\ req[v].resp.status = 200

(***************************************************************************)
(* C2: whatever the interleaving of the startup load with requests, a      *)
(* request past its availability check always finds a completely loaded    *)
(* classifier in the handle, every predict_proba call is made on such a    *)
(* classifier, and every request that is not rejected by validation either *)
(* answers 503 without touching the classifier or has used a completely    *)
(* loaded one.                                                             *)
(***************************************************************************)
C2_NoHalfLoadedUse ==
    \A w \in Workers :
        /\ req[w].pc \in {"use", "loop"} => model \in Artifacts
        /\ req[w].calls > 0 => req[w].used \in Artifacts
        /\ (req[w].op \in PredictionOps /\ req[w].pc = "done"
                /\ req[w].resp.status # 422)
              => \/ req[w].resp.status = 503 /\ req[w].calls = 0
                 \/ req[w].calls > 0 /\ req[w].used \in Artifacts
                 \/ req[w].body = << >> /\ req[w].resp.status = 200
        /\ (req[w].op = "health" /\ req[w].pc = "done")
              => req[w].resp.status \in {200, 503}

\* a request refused before the load sits beside one that passed its check
\* after the load and is using the classifier
C2_Witness ==
    \E w, v \in Workers :
        /\ req[w].op \in PredictionOps /\ req[w].began = "pending"
        /\ Unavailable(req[w])
        /\ req[v].op = "predict_batch" /\ req[v].pc = "loop"
        /\ req[v].calls > 0 /\ req[v].used = model /\ model \in Artifacts

(***************************************************************************)
(* C3: a failing startup load never escapes the startup handler; after it  *)
(* the handle is empty, every valid predict and predict_batch request      *)
(* answers 503 (not 500) and health answers 503 "Model not loaded"; health *)
(* answers model_loaded = true exactly when the handle holds a classifier. *)
(***************************************************************************)
C3_Step ==
    /\ startup' # "raised"
    /\ (startup = "pending" /\ startup' = "complete") => model' \in Artifacts \cup {None}
    /\ \A w \in Workers :
          (Begins(w) /\ startup = "complete" /\ model = None
                /\ ValidBody(req'[w].body))
              => Unavailable(req'[w])
    /\ \A w \in Workers :
          ServesHealth(w) =>
              /\ req'[w].pc = "done"
              /\ model = None =>
                    req'[w].resp = [status |-> 503, detail |-> "Model not loaded"]
              /\ model # None =>
                    /\ req'[w].resp.status = 200
                    /\ req'[w].resp.model_loaded = TRUE

\* C3: in every step a failed load stays inside the startup handler and is
\* answered with 503 by health and by the prediction endpoints
C3_LoadFailureDegrades == [][C3_Step]_vars

\* after a failed load, health and a prediction were both refused
C3_Witness ==
    /\ startup = "complete"
    /\ model = None
    /\ \E w, v \in Workers :
          /\ req[w].op = "health" /\ req[w].began = "complete"
          /\ Unavailable(req[w])
          /\ req[v].op \in PredictionOps /\ req[v].began = "complete"
          /\ ValidBody(req[v].body) /\ Unavailable(req[v])


\* worker w has answered a request of kind op with 200
Answered(w, op) ==
    req[w].op = op /\ req[w].pc = "done" /\ req[w].resp.status = 200

(***************************************************************************)
(* C4: for the probability p the classifier gives for the record, predict  *)
(* answers risk_level Low iff p < 0.30, Medium iff 0.30 <= p < 0.70 and    *)
(* High iff p >= 0.70; 0.30 is Medium, 0.70 is High, and the answer is one *)
(* of the three bands.                                                     *)
(***************************************************************************)
C4_RiskBands ==
    \A w \in Workers :
        Answered(w, "predict") =>
            LET p    == ClassifierProba(req[w].used, req[w].body[1])
                risk == req[w].resp.risk_level
            IN  /\ risk \in {"Low", "Medium", "High"}
                /\ risk = "Low" <=> p < 30000
                /\ risk = "Medium" <=> (30000 <= p /\ p < 70000)
                /\ risk = "High" <=> p >= 70000

\* both boundary values were answered, each in its upper band
C4_Witness ==
    \E w, v \in Workers :
        /\ Answered(w, "predict") /\ Answered(v, "predict")
        /\ ClassifierProba(req[w].used, req[w].body[1]) = 30000
        /\ req[w].resp.risk_level = "Medium"
        /\ ClassifierProba(req[v].used, req[v].body[1]) = 70000
        /\ req[v].resp.risk_level = "High"

(***************************************************************************)
(* C5: predict and predict_batch answer prediction = 1 iff the positive-   *)
(* class probability the classifier gives for the record is strictly above *)
(* 0.5 (0.5 itself gives 0); a probability of 0.7 is answered as           *)
(* churn_probability 0.7, prediction 1, risk_level High.                   *)
(***************************************************************************)
C5_StrictHalf ==
    \A w \in Workers :
        /\ Answered(w, "predict") =>
              LET p == ClassifierProba(req[w].used, req[w].body[1])
              IN  /\ req[w].resp.prediction \in {0, 1}
                  /\ req[w].resp.prediction = 1 <=> p > 50000
                  /\ p = 70000 =>
                        req[w].resp = [ status |-> 200,
                                        churn_probability |-> 70000,
                                        prediction |-> 1,
                                        risk_level |-> "High" ]
        /\ Answered(w, "predict_batch") =>
              \A k \in 1..Len(req[w].resp.predictions) :
                  LET p == ClassifierProba(req[w].used, req[w].body[k])
                  IN  /\ req[w].resp.predictions[k].prediction \in {0, 1}
                      /\ req[w].resp.predictions[k].prediction = 1 <=> p > 50000

\* exactly 0.5 was answered 0 by predict, and a batch answered 0 for 0.5
\* and 1 for a probability just above it
C5_Witness ==
    \E w, v \in Workers :
        /\ Answered(w, "predict")
        /\ ClassifierProba(req[w].used, req[w].body[1]) = 50000
        /\ req[w].resp.prediction = 0
        /\ Answered(v, "predict_batch")
        /\ Len(req[v].body) = 2
        /\ ClassifierProba(req[v].used, req[v].body[1]) = 50000
        /\ ClassifierProba(req[v].used, req[v].body[2]) > 50000
        /\ req[v].resp.predictions[1].prediction = 0
        /\ req[v].resp.predictions[2].prediction = 1

(***************************************************************************)
(* C6: a batch of n valid records on which the classifier succeeds is      *)
(* answered with exactly n entries and count = n, and the i-th entry holds *)
(* the churn_probability and prediction that predict answers for the i-th  *)
(* record, in input order.                                                 *)
(***************************************************************************)
PredictAnswer(clf, raw) == predict_try([Idle EXCEPT !.body = <<raw>>], clf).resp

C6_BatchIsMapOfPredict ==
    \A w \in Workers :
        Answered(w, "predict_batch") =>
            /\ Len(req[w].resp.predictions) = Len(req[w].body)
            /\ req[w].resp.count = Len(req[w].body)
            /\ \A k \in 1..Len(req[w].body) :
                  LET one == PredictAnswer(model, req[w].body[k])
                  IN  /\ one.status = 200
                      /\ k <= Len(req[w].resp.predictions)
                      /\ req[w].resp.predictions[k] =
                            [ churn_probability |-> one.churn_probability,
                              prediction |-> one.prediction ]

\* a batch of two records with different answers was answered, and predict
\* answered the second record of that batch
C6_Witness ==
    \E w, v \in Workers :
        /\ Answered(w, "predict_batch")
        /\ Len(req[w].body) = 2
        /\ req[w].resp.count = 2
        /\ req[w].resp.predictions[1] # req[w].resp.predictions[2]
        /\ Answered(v, "predict")
        /\ req[v].body[1] = req[w].body[2]
        /\ req[v].resp.churn_probability =
              req[w].resp.predictions[2].churn_probability

(***************************************************************************)
(* C7: predict_batch is all-or-nothing: a batch with an invalid record is  *)
(* rejected whole, a batch in which the computation fails for a record at  *)
(* any position fails with the error predict gives for that record, and an *)
(* answer that is not a success carries no predictions at all.             *)
(***************************************************************************)
C7_AllOrNothing ==
    \A w \in Workers :
        req[w].op = "predict_batch" =>
            /\ (\E k \in 1..Len(req[w].body) : ~ValidRecord(req[w].body[k]))
                  => /\ req[w].pc = "done"
                     /\ req[w].resp.status = 422
            /\ (req[w].pc = "done" /\ req[w].resp.status # 200)
                  => /\ DOMAIN req[w].resp = {"status", "detail"}
                     /\ req[w].predictions = << >>
            /\ (req[w].pc = "done" /\ req[w].resp.status \notin {422, 503})
                  => \A k \in 1..Len(req[w].body) :
                        ClassifierFails(model, req[w].body[k])
                            => /\ req[w].resp.status = 500
                               /\ PredictAnswer(model, req[w].body[k]).status = 500
            /\ Answered(w, "predict_batch")
                  => \A k \in 1..Len(req[w].body) :
                        ~ClassifierFails(model, req[w].body[k])

\* the second record of a batch failed after the first had succeeded
C7_Witness ==
    \E w \in Workers :
        /\ req[w].op = "predict_batch" /\ req[w].pc = "done"
        /\ req[w].resp.status = 500
        /\ Len(req[w].body) = 2
        /\ req[w].calls = 2
        /\ ~ClassifierFails(model, req[w].body[1])
        /\ ClassifierFails(model, req[w].body[2])
        /\ PredictAnswer(model, req[w].body[1]).status = 200

(***************************************************************************)
(* C8: a request (single or batch) holding a record with a field outside   *)
(* its declared bound or with an unknown field is rejected as a client     *)
(* error (422) before vectorization, and predict_proba is never called for *)
(* it.                                                                     *)
(***************************************************************************)
C8_RejectedBeforeClassifier ==
    \A w \in Workers :
        (req[w].op \in PredictionOps
            /\ \E k \in 1..Len(req[w].body) :
                  OutOfBounds(req[w].body[k]) \/ HasUnknownField(req[w].body[k]))
          => /\ req[w].pc = "done"
             /\ req[w].resp.status = 422
             /\ req[w].calls = 0
             /\ req[w].input_data = << >>

\* with the classifier loaded, CreditScore 250 was rejected by predict and
\* a batch was rejected for the unknown field of its second record
C8_Witness ==
    /\ model \in Artifacts
    /\ \E w, v \in Workers :
          /\ req[w].op = "predict" /\ req[w].began = "complete"
          /\ req[w].body = <<RecordLowScore>>
          /\ req[w].resp.status = 422
          /\ req[v].op = "predict_batch" /\ req[v].began = "complete"
          /\ req[v].body = <<RecordA, RecordExtra>>
          /\ req[v].resp.status = 422

(***************************************************************************)
(* C9: the feature array built for a valid record is one row of exactly 10 *)
(* values, the i-th being the record's i-th declared attribute, in the     *)
(* order CreditScore, Age, Tenure, Balance, NumOfProducts, HasCrCard,      *)
(* IsActiveMember, EstimatedSalary, Geography_Germany, Geography_Spain,    *)
(* which is the column order of the training data without the label.       *)
(***************************************************************************)
StatedOrder ==
    << "CreditScore", "Age", "Tenure", "Balance", "NumOfProducts",
       "HasCrCard", "IsActiveMember", "EstimatedSalary",
       "Geography_Germany", "Geography_Spain" >>

\* the record the last feature array of worker w was built from
LastVectorized(w) ==
    IF req[w].op = "predict" THEN req[w].body[1]
    ELSE IF req[w].pc = "done" /\ req[w].resp.status = 500
         THEN req[w].body[req[w].i]
         ELSE req[w].body[req[w].i - 1]

C9_FeatureOrder ==
    /\ DeclaredFields = StatedOrder
    /\ TrainingFeatures = StatedOrder
    /\ \A w \in Workers :
          req[w].input_data # << >> =>
              /\ Len(req[w].input_data) = 1
              /\ Len(req[w].input_data[1]) = 10
              /\ \A k \in 1..10 :
                    req[w].input_data[1][k] = LastVectorized(w)[StatedOrder[k]]

\* the arrays of the two test records were built, by predict and in a batch
C9_Witness ==
    \E w, v \in Workers :
        /\ req[w].op = "predict"
        /\ req[w].input_data =
              << <<650, 35, 5, 50000, 2, 1, 1, 75000, 0, 1>> >>
        /\ req[v].op = "predict_batch"
        /\ req[v].input_data =
              << <<720, 44, 8, 120000, 1, 0, 0, 82000, 1, 0>> >>


(***************************************************************************)
(* C10: when detect_drift succeeds, the features of its result are exactly *)
(* the columns present in both datasets, other than the label "Exited",    *)
(* that are numeric-typed and have a non-empty sample in both datasets     *)
(* once missing values are removed; a column that is non-numeric in either *)
(* dataset is never handed to the comparison; a column with an empty       *)
(* sample does not abort the comparison of the other columns.              *)
(***************************************************************************)
FileColumns(file) == IF file.exists THEN ColumnNames(file.columns) ELSE {}

CommonFeatures(reference_file, production_file) ==
    (FileColumns(reference_file) \cap FileColumns(production_file)) \ {"Exited"}

NumericIn(file, col) == IsNumber(ColumnOf(file.columns, col).dtype)

NonEmptyIn(file, col) ==
    \E k \in 1..Len(ColumnOf(file.columns, col).values) :
        ~ColumnOf(file.columns, col).values[k].na

Comparable(reference_file, production_file) ==
    { col \in CommonFeatures(reference_file, production_file) :
        /\ NumericIn(reference_file, col) /\ NumericIn(production_file, col)
        /\ NonEmptyIn(reference_file, col) /\ NonEmptyIn(production_file, col) }

C10_OnlyNumericCompared ==
    \A w \in Workers :
        (req[w].op = "check_drift" /\ req[w].pc = "done") =>
            LET ref    == req[w].reference
                prod   == req[w].production
                common == CommonFeatures(ref, prod)
            IN  /\ req[w].resp.status = 200 =>
                      { req[w].results[k].feature : k \in 1..Len(req[w].results) }
                          = Comparable(ref, prod)
                /\ \A col \in req[w].compared :
                      NumericIn(ref, col) /\ NumericIn(prod, col)
                /\ ( /\ common # {}
                     /\ \A col \in common :
                           NumericIn(ref, col) /\ NumericIn(prod, col) )
                      => req[w].resp.status = 200

(***************************************************************************)
(* C11: a drift check on two files whose columns, the label "Exited"       *)
(* excluded, have nothing in common fails (ValueError, answered 500), and  *)
(* a drift check never succeeds with an empty result: every successful     *)
(* check_drift reports features_analyzed >= 1, and the aggregator never    *)
(* sees total = 0.                                                         *)
(***************************************************************************)
C11_NeverEmptySuccess ==
    \A w \in Workers :
        (req[w].op = "check_drift" /\ req[w].pc = "done") =>
            LET ref  == req[w].reference
                prod == req[w].production
            IN  /\ (ref.exists /\ prod.exists /\ CommonFeatures(ref, prod) = {})
                      => /\ req[w].resp.status = 500
                         /\ req[w].resp.detail = "Drift check failed"
                /\ req[w].resp.status = 200 =>
                      /\ req[w].resp.features_analyzed >= 1
                      /\ Len(req[w].results) >= 1

(***************************************************************************)
(* C12: for every mapping of drift results with total entries of which     *)
(* drifted have drift_detected = true, the aggregator reports the          *)
(* percentage 100 * drifted / total rounded to two decimals (0 when total  *)
(* is 0) and the band LOW iff percentage < 20, MEDIUM iff 20 <=            *)
(* percentage < 50, HIGH iff percentage >= 50; 3 of 10 gives 30.0 and      *)
(* MEDIUM, 0 of 5 gives 0.0 and LOW; drifted never exceeds total and the   *)
(* percentage lies within 0..100.  Percentages count in units of 0.01.     *)
(***************************************************************************)
DriftedCount(results) ==
    Cardinality({ k \in DOMAIN results : results[k].drift_detected = TRUE })

\* pct is a multiple of 0.01 nearest to 100 * drifted / total
NearestHundredth(pct, drifted, total) ==
    /\ 2 * (10000 * drifted - pct * total) <= total
    /\ 2 * (pct * total - 10000 * drifted) <= total

C12_PercentageAndBand ==
    \A w \in Workers :
        (req[w].pc = "done" /\ req[w].event # NoEvent
            /\ req[w].event.event_type = "drift_detection") =>
            LET total   == Len(req[w].results)
                drifted == DriftedCount(req[w].results)
                pct     == req[w].event.drift_percentage
                band    == req[w].event.risk_level
            IN  /\ drifted <= total
                /\ total = 0 => pct = 0
                /\ total > 0 => NearestHundredth(pct, drifted, total)
                /\ pct >= 0 /\ pct <= 10000
                /\ band \in {"LOW", "MEDIUM", "HIGH"}
                /\ band = "LOW" <=> pct < 2000
                /\ band = "MEDIUM" <=> (2000 <= pct /\ pct < 5000)
                /\ band = "HIGH" <=> pct >= 5000
                /\ (total = 10 /\ drifted = 3) => (pct = 3000 /\ band = "MEDIUM")
                /\ (total = 5 /\ drifted = 0) => (pct = 0 /\ band = "LOW")
                /\ req[w].resp.features_analyzed = total
                /\ req[w].resp.features_drifted = drifted

\* a report on ten features of which three drifted: 30.0 percent, MEDIUM
C12_Witness ==
    \E w \in Workers :
        /\ req[w].pc = "done" /\ req[w].op = "check_drift"
        /\ Len(req[w].results) = 10
        /\ DriftedCount(req[w].results) = 3
        /\ req[w].event.drift_percentage = 3000
        /\ req[w].event.risk_level = "MEDIUM"

FailedDriftCheck(r) ==
    r.op = "check_drift" /\ r.pc = "done" /\ r.resp.status = 500

C14_Step ==
    /\ model' # model =>
          /\ startup = "pending" /\ startup' = "complete"
          /\ req' = req
    /\ req' # req => (model' = model /\ startup' = startup)
    /\ \A w \in Workers :
          (req[w].pc = "idle" /\ FailedDriftCheck(req'[w])) =>
              \A v \in Workers \ {w} : req'[v] = req[v]
    /\ \A w, v \in Workers :
          (FailedDriftCheck(req[w]) /\ model \in Artifacts) =>
              /\ (Begins(v) /\ ValidBody(req'[v].body)) =>
                    req'[v].pc \in {"use", "loop"}
              /\ ServesHealth(v) => req'[v].resp.status = 200

\* C14: every step leaves the model to the startup load, and a failed drift
\* check does not disturb the prediction endpoints
C14_RequestsKeepModel == [][C14_Step]_vars

\* a drift check failed after the load and, beside it, a prediction begun
\* after the load was answered by the loaded classifier
C14_Witness ==
    \E w, v \in Workers :
        /\ FailedDriftCheck(req[w]) /\ req[w].began = "complete"
        /\ Answered(v, "predict") /\ req[v].began = "complete"
        /\ req[v].used = model /\ model \in Artifacts

(***************************************************************************)
(* C15 as stated: every result returned by predict is consistent with the  *)
(* probability q it reports (the classifier probability rounded to four    *)
(* decimals): prediction = 1 iff q > 0.5, and risk_level is Low iff        *)
(* q < 0.30, Medium iff 0.30 <= q < 0.70, High iff q >= 0.70.              *)
(***************************************************************************)
C15_ConsistentWithReported ==
    \A w \in Workers :
        Answered(w, "predict") =>
            LET q == req[w].resp.churn_probability
            IN  /\ req[w].resp.prediction = 1 <=> q > 50000
                /\ req[w].resp.risk_level = "Low" <=> q < 30000
                /\ req[w].resp.risk_level = "Medium" <=> (30000 <= q /\ q < 70000)
                /\ req[w].resp.risk_level = "High" <=> q >= 70000

(***************************************************************************)
(* C15, amended: every result returned by predict is consistent with the   *)
(* classifier probability p before rounding: prediction = 1 iff p > 0.5,   *)
(* risk_level is Low iff p < 0.30, Medium iff 0.30 <= p < 0.70, High iff   *)
(* p >= 0.70; the reported q is the multiple of 0.0001 nearest to p, so    *)
(* against q the result can be off only at a threshold itself: prediction  *)
(* 1 has q >= 0.5, prediction 0 has q <= 0.5, Low has q <= 0.30, Medium    *)
(* has 0.30 <= q <= 0.70, High has q >= 0.70.                              *)
(***************************************************************************)
C15_ConsistentWithUnrounded ==
    \A w \in Workers :
        Answered(w, "predict") =>
            LET p == ClassifierProba(req[w].used, req[w].body[1])
                q == req[w].resp.churn_probability
                prediction == req[w].resp.prediction
                risk == req[w].resp.risk_level
            IN  /\ q % 10 = 0
                /\ 2 * (q - p) <= 10 /\ 2 * (p - q) <= 10
                /\ prediction \in {0, 1}
                /\ prediction = 1 <=> p > 50000
                /\ risk \in {"Low", "Medium", "High"}
                /\ risk = "Low" <=> p < 30000
                /\ risk = "Medium" <=> (30000 <= p /\ p < 70000)
                /\ risk = "High" <=> p >= 70000
                /\ prediction = 1 => q >= 50000
                /\ prediction = 0 => q <= 50000
                /\ risk = "Low" => q <= 30000
                /\ risk = "Medium" => (30000 <= q /\ q <= 70000)
                /\ risk = "High" => q >= 70000

\* the classifier gave 0.50004: predict reports 0.5 with prediction 1
C15_Witness ==
    \E w \in Workers :
        /\ Answered(w, "predict")
        /\ ClassifierProba(req[w].used, req[w].body[1]) = 50004
        /\ req[w].resp.churn_probability = 50000
        /\ req[w].resp.prediction = 1

==========================================================================
